---- MODULE Spec2Model ----
(***************************************************************************)
(* Model of src/utils/hyphenate.py: class Hyphenator (Liang hyphenation).  *)
(*                                                                         *)
(* A Python str is a sequence of one-character strings.  A list of ints is *)
(* a sequence of naturals; Python index k is TLA+ index k+1.  The nested   *)
(* dict self.tree is a record: nodes is the set of paths (sequences of     *)
(* characters from the root) at which a dict exists, points maps each path *)
(* whose dict has the key None to the list stored there.                   *)
(***************************************************************************)
EXTENDS Naturals, Sequences, FiniteSets

(***************************************************************************)
(* Bounds of the model.                                                    *)
(***************************************************************************)
\* tokens handed to the constructor, patterns and exceptions together
MaxTokens == 2
\* characters of one pattern token
MaxPatLen == 2
\* characters of one exception token
MaxExLen == 3
\* characters of a word handed to hyphenate_word
MaxWordLen == 2
\* threads calling hyphenate_word on one Hyphenator (SpecThreads)
NumThreads == 2
\* tokens handed to the constructor of the Hyphenator the threads share
MaxThreadTokens == 1
\* characters of a word a thread hands to hyphenate_word
MaxThreadWordLen == 1

(***************************************************************************)
(* Characters.                                                             *)
(***************************************************************************)
\* the class [0-9] of line 38
Digits == {"0", "1", "2", "3", "4", "5", "6", "7", "8", "9"}

\* the class [a-z] of line 33
AsciiLower ==
    {"a", "b", "c", "d", "e", "f", "g", "h", "i", "j", "k", "l", "m",
     "n", "o", "p", "q", "r", "s", "t", "u", "v", "w", "x", "y", "z"}

\* the class [.a-záéíóúüñ] of line 39
PatternLetters == {"."} \cup AsciiLower \cup {"á", "é", "í", "ó", "ú", "ü", "ñ"}

\* characters the model draws pattern tokens from
PatternAlphabet == {"a", "ñ", ".", "1", "2"}

\* characters the model draws exception tokens from
ExceptionAlphabet == {"a", "A", "ñ", "-"}

\* characters the model draws words from
WordAlphabet == {"a", "A", "ñ", ".", "1"}

\* str.lower() on one character
lowerChar(c) ==
    CASE c = "A" -> "a"
      [] c = "Ñ" -> "ñ"
      [] OTHER -> c

\* str.lower()
lower(s) == [k \in 1..Len(s) |-> lowerChar(s[k])]

\* int() of one decimal digit
DigitVal(c) ==
    CASE c = "0" -> 0 [] c = "1" -> 1 [] c = "2" -> 2 [] c = "3" -> 3
      [] c = "4" -> 4 [] c = "5" -> 5 [] c = "6" -> 6 [] c = "7" -> 7
      [] c = "8" -> 8 [] c = "9" -> 9

\* int(d or 0): the decimal value of a digit string, 0 for the empty string
RECURSIVE int_or_0(_)
int_or_0(d) ==
    IF d = <<>> THEN 0
    ELSE 10 * int_or_0(SubSeq(d, 1, Len(d) - 1)) + DigitVal(d[Len(d)])

\* re.split(class, s): the segments of s between the characters of the class
RECURSIVE re_split(_, _)
re_split(class, s) ==
    IF s = <<>> THEN << <<>> >>
    ELSE LET rest == re_split(class, Tail(s)) IN
         IF Head(s) \in class
         THEN << <<>> >> \o rest
         ELSE << <<Head(s)>> \o Head(rest) >> \o Tail(rest)

\* re.sub('[0-9]', '', pattern)
SelectNot(class, s) == SelectSeq(s, LAMBDA c : c \notin class)

\* max() of two ints
max(a, b) == IF a >= b THEN a ELSE b

(***************************************************************************)
(* Hyphenator._insert_pattern                                              *)
(***************************************************************************)
\* self.tree = {}
EmptyTree == [nodes |-> {<<>>}, points |-> [n \in {} |-> <<>>]]

\* chars = re.sub('[0-9]', '', pattern)
pattern_chars(pattern) == SelectNot(Digits, pattern)

\* a variant that skips the empty segments instead of reading them as 0
pattern_points_nonempty(pattern) ==
    LET segs == SelectSeq(re_split(PatternLetters, pattern), LAMBDA d : d # <<>>)
    IN  [k \in 1..Len(segs) |-> int_or_0(segs[k])]

\* points = [ int(d or 0) for d in re.split("[.a-záéíóúüñ]", pattern) ]
pattern_points(pattern) ==
    LET segs == re_split(PatternLetters, pattern)
    IN  [k \in 1..Len(segs) |-> int_or_0(segs[k])]

\* the dicts the loop of lines 45-48 visits: one per prefix of chars
Prefixes(s) == {SubSeq(s, 1, k) : k \in 0..Len(s)}

\* a variant of the descent that assigns t[c] = {} without the test of line 46:
\* the dict below every character of the pattern is replaced by an empty one
_insert_pattern_reset(tree, pattern) ==
    LET chars == pattern_chars(pattern)
        gone(n) == chars # <<>> /\ n # <<>> /\ n[1] = chars[1]
        kept == {n \in tree.nodes : ~gone(n)} \cup Prefixes(chars)
        keptPts == {n \in DOMAIN tree.points : ~gone(n)} \cup {chars}
    IN  [nodes  |-> kept,
         points |-> [n \in keptPts |->
                        IF n = chars THEN pattern_points(pattern)
                        ELSE tree.points[n]]]

\* _insert_pattern: create the missing dicts along chars, then t[None] = points
_insert_pattern(tree, pattern) ==
    LET chars == pattern_chars(pattern)
    IN  [nodes  |-> tree.nodes \cup Prefixes(chars),
         points |-> [n \in DOMAIN tree.points \cup {chars} |->
                        IF n = chars THEN pattern_points(pattern)
                        ELSE tree.points[n]]]

(***************************************************************************)
(* Hyphenator.__init__                                                     *)
(***************************************************************************)
\* for pattern in patterns.split(): self._insert_pattern(pattern)
RECURSIVE build_tree(_, _)
build_tree(tree, tokens) ==
    IF tokens = <<>> THEN tree
    ELSE build_tree(_insert_pattern(tree, Head(tokens)), Tail(tokens))

\* ex.replace('-', '')
exception_key(ex) == SelectNot({"-"}, ex)

\* [0] + [ int(h == '-') for h in re.split(r"[a-z]", ex) ]
exception_points(ex) ==
    LET segs == re_split(AsciiLower, ex)
    IN  <<0>> \o [k \in 1..Len(segs) |-> IF segs[k] = <<"-">> THEN 1 ELSE 0]

\* for ex in exceptions.split(): self.exceptions[key] = points
RECURSIVE build_exceptions(_, _)
build_exceptions(map, tokens) ==
    IF tokens = <<>> THEN map
    ELSE LET ex == Head(tokens)
             key == exception_key(ex)
         IN  build_exceptions(
                 [w \in DOMAIN map \cup {key} |->
                     IF w = key THEN exception_points(ex) ELSE map[w]],
                 Tail(tokens))

\* self.exceptions = {}
EmptyExceptions == [w \in {} |-> <<>>]

(***************************************************************************)
(* Hyphenator.hyphenate_word                                               *)
(***************************************************************************)
\* a variant that allocates one slot per character of work only
new_points_short(work) == [k \in 1..Len(work) |-> 0]

\* points = [0] * (len(work)+1)
new_points(work) == [k \in 1..(Len(work) + 1) |-> 0]

\* a variant that only keeps the last weight written to a slot
combine_overwrite(old, new) == new

\* max(points[i+j], p[j])
combine(old, new) == max(old, new)

\* for j in range(len(p)): points[i+j] = max(points[i+j], p[j])
\* acc is [points, raised, written]: raised is set by an index outside the
\* list (IndexError), written is the set of the indexes i+j used so far
RECURSIVE merge_points(_, _, _, _)
merge_points(acc, i, p, j) ==
    IF acc.raised \/ j >= Len(p) THEN acc
    ELSE IF i + j + 1 > Len(acc.points)
         THEN [acc EXCEPT !.raised = TRUE, !.written = @ \cup {i + j}]
         ELSE merge_points(
                  [acc EXCEPT !.points[i + j + 1] =
                                  combine(acc.points[i + j + 1], p[j + 1]),
                              !.written = @ \cup {i + j}],
                  i, p, j + 1)

\* for c in work[i:]: the walk from the dict at depth d below the root,
\* reached over work[i:i+d]
RECURSIVE walk(_, _, _, _, _)
walk(tree, work, i, d, acc) ==
    IF acc.raised \/ i + d >= Len(work) THEN acc
    ELSE LET t == SubSeq(work, i + 1, i + d + 1) IN
         IF t \in tree.nodes
         THEN walk(tree, work, i, d + 1,
                   IF t \in DOMAIN tree.points
                   THEN merge_points(acc, i, tree.points[t], 0)
                   ELSE acc)
         ELSE acc

\* for i in range(len(work)): the scan from start offset i on
RECURSIVE scan(_, _, _, _)
scan(tree, work, i, acc) ==
    IF acc.raised \/ i >= Len(work) THEN acc
    ELSE scan(tree, work, i + 1, walk(tree, work, i, 0, acc))

\* work = '.' + word.lower() + '.'
padded(word) == <<".">> \o lower(word) \o <<".">>

\* a variant that skips one slot only: points[1:]
from1(points) == IF Len(points) <= 1 THEN <<>> ELSE SubSeq(points, 2, Len(points))

\* points[2:]
from2(points) == IF Len(points) <= 2 THEN <<>> ELSE SubSeq(points, 3, Len(points))

\* for c, p in zip(word, points[2:]): pieces[-1] += c; if p % 2: pieces.append('')
RECURSIVE partition(_, _, _)
partition(word, pts, pieces) ==
    IF word = <<>> \/ pts = <<>> THEN pieces
    ELSE LET n == Len(pieces)
             grown == [pieces EXCEPT ![n] = Append(pieces[n], Head(word))]
         IN  partition(Tail(word), Tail(pts),
                       IF Head(pts) % 2 = 1 THEN Append(grown, <<>>) ELSE grown)

\* hyphenate_word: the branch taken, the list points, whether the call
\* raised, the indexes written by the scan, and the pieces returned
hyphenate_word(tr, exc, word) ==
    IF lower(word) \in DOMAIN exc
    THEN LET points == exc[lower(word)]
         IN  [branch |-> "exception", points |-> points, raised |-> FALSE,
              written |-> {},
              pieces |-> partition(word, from2(points), << <<>> >>)]
    ELSE LET work == padded(word)
             acc  == scan(tr, work, 0,
                          [points |-> new_points(work), raised |-> FALSE,
                           written |-> {}])
         IN  [branch |-> "trie", points |-> acc.points, raised |-> acc.raised,
              written |-> acc.written,
              pieces |-> IF acc.raised THEN <<>>
                         ELSE partition(word, from2(acc.points), << <<>> >>)]

(***************************************************************************)
(* Inputs.                                                                 *)
(***************************************************************************)
SeqsUpTo(S, n) == UNION {[1..k -> S] : k \in 0..n}

\* pattern tokens: letters of the class of line 39 and ASCII digits
PatternTokens == SeqsUpTo(PatternAlphabet, MaxPatLen) \ {<<>>}

\* exception tokens: letters with single hyphens between them
ExceptionTokens ==
    {ex \in SeqsUpTo(ExceptionAlphabet, MaxExLen) \ {<<>>} :
        /\ ex[1] # "-"
        /\ ex[Len(ex)] # "-"
        /\ \A k \in 1..(Len(ex) - 1) : ~(ex[k] = "-" /\ ex[k + 1] = "-")}

Words == SeqsUpTo(WordAlphabet, MaxWordLen)

ThreadWords == SeqsUpTo(WordAlphabet, MaxThreadWordLen)

Threads == 1..NumThreads

(***************************************************************************)
(* State.                                                                  *)
(***************************************************************************)
VARIABLES
    arg_patterns,    \* __init__'s patterns, split into tokens
    arg_exceptions,  \* __init__'s exceptions, split into tokens
    phase,           \* "new" before __init__ has run, "ready" after
    tree,            \* self.tree
    exceptions,      \* self.exceptions
    call_word,       \* the word of the last hyphenate_word call
    call_ret,        \* what that call did and returned
    thr              \* per thread: the position and locals of its call

vars == <<arg_patterns, arg_exceptions, phase, tree, exceptions,
          call_word, call_ret, thr>>

NoCall == [branch |-> "none", points |-> <<>>, raised |-> FALSE,
           written |-> {}, pieces |-> <<>>]

IdleThread == [pc |-> "idle", word |-> <<>>, branch |-> "none", work |-> <<>>,
               i |-> 0, acc |-> [points |-> <<>>, raised |-> FALSE, written |-> {}],
               pieces |-> <<>>]

InitCommon ==
    /\ phase = "new"
    /\ tree = EmptyTree
    /\ exceptions = EmptyExceptions
    /\ call_word = <<>>
    /\ call_ret = NoCall
    /\ thr = [t \in Threads |-> IdleThread]

Init ==
    /\ \E n \in 0..MaxTokens :
           /\ arg_patterns \in [1..n -> PatternTokens]
           /\ arg_exceptions \in SeqsUpTo(ExceptionTokens, MaxTokens - n)
    /\ InitCommon

\* Hyphenator(patterns, exceptions)
Construct ==
    /\ phase = "new"
    /\ tree' = build_tree(EmptyTree, arg_patterns)
    /\ exceptions' = build_exceptions(EmptyExceptions, arg_exceptions)
    /\ phase' = "ready"
    /\ UNCHANGED <<arg_patterns, arg_exceptions, call_word, call_ret, thr>>

\* hyphenate_word(word), run from call to return
Call(word) ==
    /\ phase = "ready"
    /\ call_word' = word
    /\ call_ret' = hyphenate_word(tree, exceptions, word)
    /\ phase' = "returned"
    /\ UNCHANGED <<arg_patterns, arg_exceptions, tree, exceptions, thr>>

\* the caller has used the pieces and drops them; the next call may start
Release ==
    /\ phase = "returned"
    /\ call_word' = <<>>
    /\ call_ret' = NoCall
    /\ phase' = "ready"
    /\ UNCHANGED <<arg_patterns, arg_exceptions, tree, exceptions, thr>>

Next ==
    \/ Construct
    \/ \E word \in Words : Call(word)
    \/ Release

Spec == Init /\ [][Next]_vars

(***************************************************************************)
(* Several threads calling hyphenate_word on one Hyphenator.  A thread's   *)
(* call is followed statement by statement: the lookup of lines 57-61, one *)
(* iteration of the loop of line 62 at a time, then lines 75-80.           *)
(***************************************************************************)
InitThreads ==
    /\ \E n \in 0..MaxThreadTokens :
           /\ arg_patterns \in [1..n -> PatternTokens]
           /\ arg_exceptions \in SeqsUpTo(ExceptionTokens, MaxThreadTokens - n)
    /\ InitCommon

\* the thread enters hyphenate_word(word)
TCall(t, word) ==
    /\ phase = "ready"
    /\ thr[t].pc \in {"idle", "done"}
    /\ thr' = [thr EXCEPT ![t] = [IdleThread EXCEPT !.pc = "lookup", !.word = word]]
    /\ UNCHANGED <<arg_patterns, arg_exceptions, phase, tree, exceptions,
                   call_word, call_ret>>

\* lines 57-61: the exception lookup, or work and the fresh list points
TLookup(t) ==
    /\ thr[t].pc = "lookup"
    /\ thr' = [thr EXCEPT ![t] =
                  IF lower(@.word) \in DOMAIN exceptions
                  THEN [@ EXCEPT !.pc = "partition", !.branch = "exception",
                                 !.acc.points = exceptions[lower(thr[t].word)]]
                  ELSE [@ EXCEPT !.pc = "scan", !.branch = "trie",
                                 !.work = padded(thr[t].word), !.i = 0,
                                 !.acc.points = new_points(padded(thr[t].word))]]
    /\ UNCHANGED <<arg_patterns, arg_exceptions, phase, tree, exceptions,
                   call_word, call_ret>>

\* the locals of thread t after the iteration of the loop of line 62 for its i
AfterScan(t) ==
    LET acc == walk(tree, thr[t].work, thr[t].i, 0, thr[t].acc)
    IN  [thr[t] EXCEPT !.acc = acc, !.i = @ + 1,
                       !.pc = IF acc.raised THEN "raised"
                              ELSE IF thr[t].i + 1 >= Len(thr[t].work)
                                   THEN "partition" ELSE "scan"]

\* a variant of the walk that creates the dict it looks for (a lookup with
\* setdefault): the first character of work[i:] gets a node under the root
TScan_setdefault(t) ==
    /\ thr[t].pc = "scan"
    /\ thr' = [thr EXCEPT ![t] = AfterScan(t)]
    /\ tree' = [tree EXCEPT !.nodes = @ \cup {<<thr[t].work[thr[t].i + 1]>>}]
    /\ UNCHANGED <<arg_patterns, arg_exceptions, phase, exceptions,
                   call_word, call_ret>>

\* lines 62-72: one start offset i of the scan
TScan(t) ==
    /\ thr[t].pc = "scan"
    /\ thr' = [thr EXCEPT ![t] = AfterScan(t)]
    /\ UNCHANGED <<arg_patterns, arg_exceptions, phase, tree, exceptions,
                   call_word, call_ret>>

\* lines 75-80: the pieces are built and returned
TPartition(t) ==
    /\ thr[t].pc = "partition"
    /\ thr' = [thr EXCEPT ![t].pc = "done",
                          ![t].pieces = partition(thr[t].word,
                                                  from2(thr[t].acc.points),
                                                  << <<>> >>)]
    /\ UNCHANGED <<arg_patterns, arg_exceptions, phase, tree, exceptions,
                   call_word, call_ret>>

NextThreads ==
    \/ Construct
    \/ \E t \in Threads : \E word \in ThreadWords : TCall(t, word)
    \/ \E t \in Threads : TLookup(t)
    \/ \E t \in Threads : TScan(t)
    \/ \E t \in Threads : TPartition(t)

SpecThreads == InitThreads /\ [][NextThreads]_vars

(***************************************************************************)
(* Properties.                                                             *)
(***************************************************************************)
Returned == phase = "returned"

\* ''.join(pieces)
RECURSIVE Concat(_)
Concat(pieces) == IF pieces = <<>> THEN <<>> ELSE Head(pieces) \o Concat(Tail(pieces))

Min(a, b) == IF a <= b THEN a ELSE b

\* the greatest element of a non-empty set of naturals
MaxOf(S) == CHOOSE m \in S : \A n \in S : n <= m

\* the number of characters of the word that zip pairs with a slot
Paired(word, points) ==
    Min(Len(word), IF Len(points) >= 2 THEN Len(points) - 2 ELSE 0)

\* the word cut after each of its first n characters whose number is in B
RECURSIVE CutAt(_, _, _)
CutAt(word, B, n) ==
    IF n = 0 THEN << <<>> >>
    ELSE LET before == CutAt(word, B, n - 1)
             m == Len(before)
             grown == [before EXCEPT ![m] = Append(before[m], word[n])]
         IN  IF n \in B THEN Append(grown, <<>>) ELSE grown

\* C1: the pieces of every call, concatenated in order, are the word
C1_RoundTrip == Returned => Concat(call_ret.pieces) = call_word

\* the number of letters before each hyphen of an exception token
BreaksOf(ex) ==
    {Len(exception_key(SubSeq(ex, 1, k))) : k \in {h \in 1..Len(ex) : ex[h] = "-"}}

\* the exception token registered last under the key
LastTokenFor(key) ==
    LET ks == {k \in 1..Len(arg_exceptions) : exception_key(arg_exceptions[k]) = key}
    IN  arg_exceptions[MaxOf(ks)]

\* C2: a word whose lower-cased form is an exception key is resolved by the
\* exception alone: the trie is not consulted, the pieces are those of the
\* same exceptions with no pattern at all, and the word is cut exactly where
\* the exception token has its hyphens
C2_ExceptionPrecedence ==
    (Returned /\ lower(call_word) \in DOMAIN exceptions) =>
        /\ call_ret.branch = "exception"
        /\ call_ret.pieces =
               hyphenate_word(EmptyTree, exceptions, call_word).pieces
        /\ call_ret.pieces =
               CutAt(call_word, BreaksOf(LastTokenFor(lower(call_word))),
                     Len(call_word))

\* the pattern letters L occur in work at offset i
Occurs(L, work, i) ==
    i + Len(L) <= Len(work) /\ SubSeq(work, i + 1, i + Len(L)) = L

\* the weights that stored patterns with letters in Ls put on slot k of work
WeightsAt(Ls, work, k) ==
    {tree.points[L][k - i + 1] :
        <<L, i>> \in {m \in Ls \X (0..Len(work)) :
                        Occurs(m[1], work, m[2]) /\ m[2] <= k /\ k <= m[2] + Len(m[1])}}

\* C3 as stated: after the scan slot k is the maximum of 0 and of the weights
\* of every stored pattern at every offset where its letters occur
C3_MaxOverAllStored ==
    (Returned /\ call_ret.branch = "trie") =>
        LET work == padded(call_word) IN
        /\ Len(call_ret.points) = Len(work) + 1
        /\ \A k \in 0..Len(work) :
               call_ret.points[k + 1] =
                   MaxOf({0} \cup WeightsAt(DOMAIN tree.points, work, k))

\* C3 amended: the same, over the stored patterns that have at least one letter
C3_MaxAggregation ==
    (Returned /\ call_ret.branch = "trie") =>
        LET work == padded(call_word) IN
        /\ Len(call_ret.points) = Len(work) + 1
        /\ \A k \in 0..Len(work) :
               call_ret.points[k + 1] =
                   MaxOf({0} \cup WeightsAt(DOMAIN tree.points \ {<<>>}, work, k))

\* two stored patterns put the weights 1 and 2 on one slot, and the slot holds 2
C3_Witness ==
    /\ Returned /\ call_ret.branch = "trie"
    /\ \E k \in 0..Len(padded(call_word)) :
           /\ {1, 2} \subseteq
                  WeightsAt(DOMAIN tree.points \ {<<>>}, padded(call_word), k)
           /\ call_ret.points[k + 1] = 2

\* the orders in which the tokens of a list can be inserted
Orders(tokens) ==
    LET n == Len(tokens)
        perms == {f \in [1..n -> 1..n] : \A a, b \in 1..n : f[a] = f[b] => a = b}
    IN  {[k \in 1..n |-> tokens[f[k]]] : f \in perms}

\* no two tokens of the list have the same letters
DistinctLetters(tokens) ==
    \A a, b \in 1..Len(tokens) :
        pattern_chars(tokens[a]) = pattern_chars(tokens[b]) => a = b

\* C4 as stated: a Hyphenator built from the same pattern tokens in any other
\* order returns the same pieces
C4_AnyOrder ==
    Returned =>
        \A order \in Orders(arg_patterns) :
            hyphenate_word(build_tree(EmptyTree, order), exceptions,
                           call_word).pieces = call_ret.pieces

\* C4 amended: the same, for pattern tokens no two of which have the same letters
C4_OrderIndependence ==
    (Returned /\ DistinctLetters(arg_patterns)) =>
        \A order \in Orders(arg_patterns) :
            hyphenate_word(build_tree(EmptyTree, order), exceptions,
                           call_word).pieces = call_ret.pieces

\* two patterns with different letters both matched the word and it was split
C4_Witness ==
    /\ Returned /\ call_ret.branch = "trie"
    /\ Len(arg_patterns) = 2 /\ DistinctLetters(arg_patterns)
    /\ \A a \in 1..2 : \E i \in 0..Len(padded(call_word)) :
           /\ pattern_chars(arg_patterns[a]) # <<>>
           /\ Occurs(pattern_chars(arg_patterns[a]), padded(call_word), i)
    /\ Len(call_ret.pieces) >= 2

\* C5: no call raises, and every index the scan writes is one of the list
C5_Total ==
    Returned =>
        /\ ~call_ret.raised
        /\ call_ret.written \subseteq 0..Len(padded(call_word))

\* a pattern matched at the end of the padded word and wrote the last slot
C5_Witness ==
    /\ Returned /\ call_ret.branch = "trie"
    /\ Len(padded(call_word)) \in call_ret.written

\* C7: at least one piece, and the whole word as the only piece when no slot
\* paired with a character is odd
C7_SinglePiece ==
    Returned =>
        /\ Len(call_ret.pieces) >= 1
        /\ (\A k \in 1..Paired(call_word, call_ret.points) :
                call_ret.points[k + 2] % 2 = 0)
           => call_ret.pieces = <<call_word>>

\* the lengths of the first m pieces, for every m but the last
Cuts(pieces) ==
    {Len(Concat(SubSeq(pieces, 1, m))) : m \in 1..(Len(pieces) - 1)}

C9_CaseInsensitive ==
    /\ phase # "new" =>
           \A k \in 1..Len(arg_exceptions) :
               lower(exception_key(arg_exceptions[k])) \in DOMAIN exceptions
    /\ (Returned /\ \E k \in 1..Len(arg_exceptions) :
            lower(exception_key(arg_exceptions[k])) = lower(call_word))
       => call_ret.branch = "exception"

\* C6: whatever calls the threads have made or are making, the trie and the
\* exception map are the ones construction built, and a finished call holds
\* the pieces the same call returns when it runs alone
C6_ReadOnly ==
    phase = "ready" =>
        /\ tree = build_tree(EmptyTree, arg_patterns)
        /\ exceptions = build_exceptions(EmptyExceptions, arg_exceptions)
        /\ \A t \in Threads :
               thr[t].pc = "done" =>
                   thr[t].pieces =
                       hyphenate_word(tree, exceptions, thr[t].word).pieces

\* one thread has returned a split word while another thread is inside its
\* scan of the same word
C6_Witness ==
    /\ \E t, u \in Threads :
           /\ thr[t].pc = "done" /\ Len(thr[t].pieces) >= 2
           /\ thr[u].pc = "scan" /\ thr[u].i >= 1 /\ thr[u].word = thr[t].word

\* the positions of the letters (the characters that are no digit) of a token
LetterIndexes(token) == {k \in 1..Len(token) : token[k] \notin Digits}

\* the position of the g-th letter; 0 before the first, Len+1 after the last
NthLetter(token, g) ==
    IF g = 0 THEN 0
    ELSE IF g > Cardinality(LetterIndexes(token)) THEN Len(token) + 1
    ELSE CHOOSE k \in LetterIndexes(token) :
             Cardinality({m \in LetterIndexes(token) : m <= k}) = g

\* the number a digit string writes in decimal, 0 for no digit
RECURSIVE Decimal(_, _)
Decimal(d, acc) ==
    IF d = <<>> THEN acc ELSE Decimal(Tail(d), 10 * acc + DigitVal(Head(d)))

\* what the token writes between its g-th and its (g+1)-th letter
WrittenAfter(token, g) ==
    SubSeq(token, NthLetter(token, g) + 1, NthLetter(token, g + 1) - 1)

\* the token of the list that was inserted last among those with its letters
InsertedLast(tokens, k) ==
    \A m \in (k + 1)..Len(tokens) :
        pattern_chars(tokens[m]) # pattern_chars(tokens[k])

\* C10: every payload of the trie is one longer than the depth of its node,
\* and the payload a token leaves is stored at its letters and holds, between
\* the (k-1)-th and the k-th letter, the number written there, 0 if none
C10_PatternParsing ==
    phase # "new" =>
        /\ \A n \in DOMAIN tree.points :
               n \in tree.nodes /\ Len(tree.points[n]) = Len(n) + 1
        /\ \A k \in 1..Len(arg_patterns) :
               LET token == arg_patterns[k]
                   count == Cardinality(LetterIndexes(token))
                   letters == [g \in 1..count |-> token[NthLetter(token, g)]]
               IN  InsertedLast(arg_patterns, k) =>
                       /\ letters \in DOMAIN tree.points
                       /\ tree.points[letters] =
                              [g \in 1..(count + 1) |->
                                  Decimal(WrittenAfter(token, g - 1), 0)]

\* a stored payload of a pattern with letters has a written weight and a
\* default 0, and another is a number of two digits
C10_Witness ==
    /\ phase # "new"
    /\ \E n \in DOMAIN tree.points :
           /\ n # <<>>
           /\ \E a, b \in 1..Len(tree.points[n]) :
                  tree.points[n][a] > 0 /\ tree.points[n][b] = 0
    /\ \E n \in DOMAIN tree.points :
           \E a \in 1..Len(tree.points[n]) : tree.points[n][a] >= 10
====
